---- MODULE Spec2Model ----
(***************************************************************************)
(* Model of the blog API server (server/index.ts): the in-memory session   *)
(* registry, the comment log kept in COMMENTS_FILE, the post documents of  *)
(* BLOG_DIR with their frontmatter, and the slug generator.  One action    *)
(* per request handler.  A handler suspends only while it awaits the       *)
(* request body; everything after that runs to completion, so a handler    *)
(* is one step.  The comment mutations are also given step by step, as the *)
(* event loop runs them (SpecLoop).                                        *)
(***************************************************************************)
EXTENDS Integers, Sequences, FiniteSets, TLC

VARIABLES
    now,           \* the value Date.now() returns
    sessions,      \* the Map token -> {expires}
    commentsFile,  \* the parsed content of COMMENTS_FILE: postSlug -> array
    last,          \* the last request handled and the response it got
    blogDir,       \* BLOG_DIR: file name -> text of the file
    titleArg,      \* the title last given to generateSlug
    slugOut,       \* what generateSlug returned for it (at the start: for "")
    reqs,          \* the comment mutations in flight, one per connection
    running,       \* the connection whose handler the JavaScript thread runs
    issued         \* the values generateSessionToken() has returned

\* The post directory, and the argument and result of the slug generator.
postVars == <<blogDir>>
slugVars == <<titleArg, slugOut>>

\* The handlers of the event loop, step by step.
loopVars == <<reqs, running>>

\* What the session and comment handlers never touch.
beyondComments == <<postVars, slugVars, loopVars, issued>>

vars == <<now, sessions, commentsFile, last, blogDir, titleArg, slugOut,
          reqs, running, issued>>

----------------------------------------------------------------------------
(* Program constants and the bounded input domains.                         *)

ADMIN_PASSWORD == "blog_admin_2024"

\* The lifetime, in milliseconds, login gives a session.
SessionTTL == 24 * 60 * 60 * 1000

\* Largest number of comments kept in the comment file.
MaxComments == 2

\* The values Date.now() takes in the model: the start, one session
\* lifetime later, and one millisecond after that.
Times == {0, SessionTTL, SessionTTL + 1}

Passwords == {ADMIN_PASSWORD, "wrong"}

\* Values generateSessionToken() can return.
Tokens == {"t1", "t2"}

\* A request without Authorization header, or a body without token: the
\* falsy token.
NoToken == ""

\* Property names every JavaScript object inherits from Object.prototype.
ObjectPrototypeKeys ==
    {"constructor", "__proto__", "hasOwnProperty", "isPrototypeOf",
     "propertyIsEnumerable", "toLocaleString", "toString", "valueOf"}

PostSlugs == {"hello-world", "about", "constructor"}

\* The characters of those slugs.
SlugText ==
    [p \in PostSlugs |->
        IF p = "hello-world"
        THEN <<"h", "e", "l", "l", "o", "-", "w", "o", "r", "l", "d">>
        ELSE IF p = "about" THEN <<"a", "b", "o", "u", "t">>
        ELSE <<"c", "o", "n", "s", "t", "r", "u", "c", "t", "o", "r">>]

Authors == {"Alice", "Bob"}
Colors == {"#ff0000"}
Contents == {"nice post"}

\* parseInt(parts[4]) of a path without a numeric id is NaN, which equals
\* no stored id; -1 stands for it.
NoId == -1
CommentIds == Times \cup {NoId}

EmptyMap == [k \in {} |-> <<>>]

----------------------------------------------------------------------------
(* Map and object helpers.                                                  *)

MapSet(m, k, v) == [x \in (DOMAIN m) \cup {k} |-> IF x = k THEN v ELSE m[x]]

MapDelete(m, k) == [x \in (DOMAIN m) \ {k} |-> m[x]]

\* What the expression comments[postSlug] evaluates to on the object that
\* JSON.parse returned: the stored array, a value inherited from
\* Object.prototype (truthy, not an array), or undefined.
PropKind(comments, postSlug) ==
    IF postSlug \in DOMAIN comments THEN "array"
    ELSE IF postSlug \in ObjectPrototypeKeys THEN "inherited"
    ELSE "undefined"

\* Removal of the first match only (findIndex and splice) instead of filter.
RECURSIVE FilterOutId_FirstMatch(_, _)
FilterOutId_FirstMatch(arr, commentId) ==
    IF arr = <<>> THEN <<>>
    ELSE IF Head(arr).id # commentId
         THEN <<Head(arr)>> \o FilterOutId_FirstMatch(Tail(arr), commentId)
         ELSE Tail(arr)

\* Array.prototype.filter(c => c.id !== commentId)
RECURSIVE FilterOutId(_, _)
FilterOutId(arr, commentId) ==
    IF arr = <<>> THEN <<>>
    ELSE IF Head(arr).id # commentId
         THEN <<Head(arr)>> \o FilterOutId(Tail(arr), commentId)
         ELSE FilterOutId(Tail(arr), commentId)

\* The number of comments in the file, over all partitions.
RECURSIVE TotalComments(_)
TotalComments(comments) ==
    IF DOMAIN comments = {} THEN 0
    ELSE LET k == CHOOSE x \in DOMAIN comments : TRUE
         IN Len(comments[k]) + TotalComments(MapDelete(comments, k))

----------------------------------------------------------------------------
(* Session registry.                                                        *)

\* isValidSession with the expiry test written >= instead of >.
isValidSession_ExpiredAtExpiry(s, token, t) ==
    IF token \notin DOMAIN s THEN [valid |-> FALSE, sessions |-> s]
    ELSE IF t >= s[token].expires
         THEN [valid |-> FALSE, sessions |-> MapDelete(s, token)]
         ELSE [valid |-> TRUE, sessions |-> s]

\* isValidSession that reports an expired session without deleting it.
isValidSession_NoEvict(s, token, t) ==
    IF token \notin DOMAIN s THEN [valid |-> FALSE, sessions |-> s]
    ELSE IF t > s[token].expires
         THEN [valid |-> FALSE, sessions |-> s]
         ELSE [valid |-> TRUE, sessions |-> s]

\* isValidSession that renews a session each time it finds it valid.
isValidSession_Sliding(s, token, t) ==
    IF token \notin DOMAIN s THEN [valid |-> FALSE, sessions |-> s]
    ELSE IF t > s[token].expires
         THEN [valid |-> FALSE, sessions |-> MapDelete(s, token)]
         ELSE [valid |-> TRUE,
               sessions |-> [s EXCEPT ![token] = [expires |-> t + SessionTTL]]]

\* isValidSession(token) at time t on registry s: the boolean it returns
\* and the registry it leaves behind.
isValidSession(s, token, t) ==
    IF token \notin DOMAIN s THEN [valid |-> FALSE, sessions |-> s]
    ELSE IF t > s[token].expires
         THEN [valid |-> FALSE, sessions |-> MapDelete(s, token)]
         ELSE [valid |-> TRUE, sessions |-> s]

\* The session lifetime taken in seconds instead of milliseconds.
NewSession_Seconds(t) == [expires |-> t + 24 * 60 * 60]

\* The entry login stores for a token at time t.
NewSession(t) == [expires |-> t + SessionTTL]

\* sessions.clear() in place of sessions.delete(token).
SessionsAfterLogout_Clear(s, token) == [k \in {} |-> [expires |-> 0]]

\* sessions.delete(token)
SessionsAfterLogout(s, token) == MapDelete(s, token)

----------------------------------------------------------------------------
(* Text.  A string of the program is a sequence of characters, each a      *)
(* one-character string; a character outside ASCII is written by its code  *)
(* point, as in "U+4E2D".                                                  *)

UpperCaseLetters ==
    <<"A", "B", "C", "D", "E", "F", "G", "H", "I", "J", "K", "L", "M",
      "N", "O", "P", "Q", "R", "S", "T", "U", "V", "W", "X", "Y", "Z">>

LowerCaseLetters ==
    <<"a", "b", "c", "d", "e", "f", "g", "h", "i", "j", "k", "l", "m",
      "n", "o", "p", "q", "r", "s", "t", "u", "v", "w", "x", "y", "z">>

DigitChars == {"0", "1", "2", "3", "4", "5", "6", "7", "8", "9"}

\* Two of the ideographs of the range 一-龥.
CJKChars == {"U+4E2D", "U+6587"}

\* The KELVIN SIGN, whose lower case is the ASCII letter k.
KelvinSign == "U+212A"

\* String.prototype.toLowerCase on one character.
LowerChar(c) ==
    IF \E i \in DOMAIN UpperCaseLetters : UpperCaseLetters[i] = c
    THEN LowerCaseLetters[CHOOSE i \in DOMAIN UpperCaseLetters :
                              UpperCaseLetters[i] = c]
    ELSE IF c = KelvinSign THEN "k"
    ELSE c

\* String.prototype.toLowerCase
toLowerCase(s) == [i \in DOMAIN s |-> LowerChar(s[i])]

\* Array.prototype.join
RECURSIVE Join(_, _)
Join(parts, sep) ==
    IF parts = <<>> THEN <<>>
    ELSE IF Len(parts) = 1 THEN parts[1]
    ELSE parts[1] \o sep \o Join(Tail(parts), sep)

----------------------------------------------------------------------------
(* Slug generator.                                                          *)

\* The characters the class [a-z0-9一-龥] accepts.
IsSlugChar(c) ==
    \/ \E i \in DOMAIN LowerCaseLetters : LowerCaseLetters[i] = c
    \/ c \in DigitChars
    \/ c \in CJKChars

\* replace(/[^a-z0-9一-龥]+/g, '-'); inRun tells that the
\* character before s was part of the run being replaced.
RECURSIVE ReplaceRuns(_, _)
ReplaceRuns(s, inRun) ==
    IF s = <<>> THEN <<>>
    ELSE IF IsSlugChar(Head(s))
         THEN <<Head(s)>> \o ReplaceRuns(Tail(s), FALSE)
         ELSE IF inRun THEN ReplaceRuns(Tail(s), TRUE)
              ELSE <<"-">> \o ReplaceRuns(Tail(s), TRUE)

\* replace(/^-|-$/g, ''): a hyphen at the start and a hyphen at the end
\* are each removed once.
StripEdgeHyphens(s) ==
    LET a == IF s # <<>> /\ Head(s) = "-" THEN Tail(s) ELSE s
    IN IF a # <<>> /\ a[Len(a)] = "-" THEN SubSeq(a, 1, Len(a) - 1) ELSE a

Untitled == <<"u", "n", "t", "i", "t", "l", "e", "d">>

\* The slug expression without its || 'untitled', as generateMarkdown of
\* the drafts library writes it.
generateSlug_NoFallback(title) ==
    StripEdgeHyphens(ReplaceRuns(toLowerCase(title), FALSE))

\* generateSlug(title)
generateSlug(title) ==
    LET s == StripEdgeHyphens(ReplaceRuns(toLowerCase(title), FALSE))
    IN IF s = <<>> THEN Untitled ELSE s

\* Longest title given to the slug generator on its own.
MaxTitleLen == 3

\* The characters those titles are made of: letters of both cases, a
\* digit, an ideograph, and a space and a hyphen, which are outside the
\* class.
TitleChars == {"A", "b", "7", "U+4E2D", " ", "-"}

HelloWorldTitle ==
    <<"H", "e", "l", "l", "o", ",", " ", "W", "o", "r", "l", "d", "!">>

\* A title that starts with a Kelvin sign.
KelvinTitle == <<KelvinSign, "2">>

SlugTitles ==
    UNION {[1..n -> TitleChars] : n \in 0..MaxTitleLen}
        \cup {HelloWorldTitle, KelvinTitle}

----------------------------------------------------------------------------
(* String operations the post handlers use.                                 *)

\* The part of s from index i on.
From(s, i) == SubSeq(s, i, Len(s))

\* pattern p stands in s at index i.
StartsWithAt(s, i, p) ==
    i + Len(p) - 1 <= Len(s) /\ SubSeq(s, i, i + Len(p) - 1) = p

\* The index of the first occurrence of p in s at or after i, 0 if none.
IndexOf(s, p, i) ==
    LET hits == {k \in i..(Len(s) - Len(p) + 1) :
                    \A d \in DOMAIN p : s[k + d - 1] = p[d]}
    IN IF hits = {} THEN 0 ELSE CHOOSE k \in hits : \A m \in hits : k <= m

\* String.prototype.endsWith
EndsWith(s, p) == Len(p) <= Len(s) /\ From(s, Len(s) - Len(p) + 1) = p

\* String.prototype.split on a one-character separator c: the pieces
\* between one occurrence of c and the next.
Split(s, c) ==
    LET seps == {i \in DOMAIN s : s[i] = c}
        \* the k-th occurrence of c; 0 and Len(s) + 1 bound the text
        at(k) == IF k = 0 THEN 0
                 ELSE IF k > Cardinality(seps) THEN Len(s) + 1
                 ELSE CHOOSE i \in seps : Cardinality({j \in seps : j < i}) = k - 1
    IN [k \in 1..(Cardinality(seps) + 1) |-> SubSeq(s, at(k - 1) + 1, at(k) - 1)]

\* A replace with a string pattern replaces the first occurrence only.
RemoveFirst(s, p) ==
    LET i == IndexOf(s, p, 1)
    IN IF i = 0 THEN s ELSE SubSeq(s, 1, i - 1) \o From(s, i + Len(p))

\* The white space String.prototype.trim removes, as far as the texts of
\* the model contain it.
WhiteSpace == {" ", "\t", "\r", "\n"}

RECURSIVE TrimStart(_)
TrimStart(s) ==
    IF s # <<>> /\ Head(s) \in WhiteSpace THEN TrimStart(Tail(s)) ELSE s

RECURSIVE TrimEnd(_)
TrimEnd(s) ==
    IF s # <<>> /\ s[Len(s)] \in WhiteSpace
    THEN TrimEnd(SubSeq(s, 1, Len(s) - 1))
    ELSE s

\* String.prototype.trim
trim(s) == TrimEnd(TrimStart(s))

----------------------------------------------------------------------------
(* Frontmatter: what the GET handlers read out of a document.  A value is  *)
(* a string or an array of strings; kind tells which.                      *)

StringValue(s) == [kind |-> "string", chars |-> s, items |-> <<>>]
ArrayValue(a) == [kind |-> "array", chars |-> <<>>, items |-> a]

\* const frontmatter = {}
EmptyObject == [k \in {} |-> StringValue(<<>>)]

FrontmatterOpen == <<"-", "-", "-", "\n">>
FrontmatterClose == <<"\n", "-", "-", "-">>

\* Where /^---\n([\s\S]*?)\n---/ finds the closing "\n---" in content: the
\* first one at or after index 5; 0 when the expression does not match.
CloseIndex(content) ==
    IF StartsWithAt(content, 1, FrontmatterOpen)
    THEN IndexOf(content, FrontmatterClose, 5)
    ELSE 0

\* match[1]
MatchedBlock(content) == SubSeq(content, 5, CloseIndex(content) - 1)

RECURSIVE SkipNewlines(_, _)
SkipNewlines(s, i) ==
    IF i <= Len(s) /\ s[i] = "\n" THEN SkipNewlines(s, i + 1) ELSE i

\* content.replace(/^---\n[\s\S]*?\n---\n*/, '')
StripFrontmatter(content) ==
    IF CloseIndex(content) = 0 THEN content
    ELSE From(content, SkipNewlines(content, CloseIndex(content) + 4))

\* value.replace(/'/g, '"')
SingleToDouble(s) == [i \in DOMAIN s |-> IF s[i] = "'" THEN "\"" ELSE s[i]]

QuoteChars == {"\"", "'"}

\* value.replace(/^["']|["']$/g, ''): a quote at the start and a quote at
\* the end are each removed.
StripQuotes(s) ==
    LET a == IF s # <<>> /\ Head(s) \in QuoteChars THEN Tail(s) ELSE s
    IN IF a # <<>> /\ a[Len(a)] \in QuoteChars
       THEN SubSeq(a, 1, Len(a) - 1)
       ELSE a

\* JSON.parse on a text that starts with "[", for arrays of strings
\* without escape sequences (the documents of the model hold no other
\* array): ok tells whether it returned, items is the array.
JSONWhiteSpace == {" ", "\t", "\r", "\n"}

ParseFailed == [ok |-> FALSE, items |-> <<>>]

RECURSIVE SkipJSONWhiteSpace(_, _)
SkipJSONWhiteSpace(s, i) ==
    IF i <= Len(s) /\ s[i] \in JSONWhiteSpace
    THEN SkipJSONWhiteSpace(s, i + 1)
    ELSE i

\* The elements from index i on, where a string literal has to start.
RECURSIVE ParseElements(_, _, _)
ParseElements(s, i, acc) ==
    IF i > Len(s) \/ s[i] # "\"" THEN ParseFailed
    ELSE LET j == IndexOf(s, <<"\"">>, i + 1)
             item == SubSeq(s, i + 1, j - 1)
             k == SkipJSONWhiteSpace(s, j + 1)
         IN IF j = 0 THEN ParseFailed
            ELSE IF \E x \in DOMAIN item : item[x] \in {"\t", "\r", "\n"}
                 THEN ParseFailed
            ELSE IF k > Len(s) THEN ParseFailed
            ELSE IF s[k] = "]"
                 THEN IF k = Len(s)
                      THEN [ok |-> TRUE, items |-> Append(acc, item)]
                      ELSE ParseFailed
            ELSE IF s[k] = ","
                 THEN ParseElements(s, SkipJSONWhiteSpace(s, k + 1),
                                    Append(acc, item))
            ELSE ParseFailed

JSONParseArray(s) ==
    LET i == SkipJSONWhiteSpace(s, 2)
    IN IF i <= Len(s) /\ s[i] = "]"
       THEN IF i = Len(s) THEN [ok |-> TRUE, items |-> <<>>] ELSE ParseFailed
       ELSE ParseElements(s, i, <<>>)

\* The value stored for a trimmed right-hand side: the parsed array when
\* it starts with "[" and parses, else the text with its quotes stripped.
ParseValue(raw) ==
    LET r == IF raw # <<>> /\ raw[1] = "["
             THEN JSONParseArray(SingleToDouble(raw))
             ELSE ParseFailed
    IN IF r.ok THEN ArrayValue(r.items) ELSE StringValue(StripQuotes(raw))

\* One line of the block: const [key, ...rest] = line.split(':'), and the
\* assignment made if (key && rest.length).
ParseLine(frontmatter, line) ==
    LET i == IndexOf(line, <<":">>, 1)
    IN IF i = 0 \/ i = 1 THEN frontmatter
       ELSE MapSet(frontmatter, trim(SubSeq(line, 1, i - 1)),
                   ParseValue(trim(From(line, i + 1))))

RECURSIVE ParseLines(_, _)
ParseLines(frontmatter, lines) ==
    IF lines = <<>> THEN frontmatter
    ELSE ParseLines(ParseLine(frontmatter, Head(lines)), Tail(lines))

\* The frontmatter object of a document.
Frontmatter(content) ==
    IF CloseIndex(content) = 0 THEN EmptyObject
    ELSE ParseLines(EmptyObject, Split(MatchedBlock(content), "\n"))

\* Property names of the post objects.
K_slug == <<"s", "l", "u", "g">>
K_content == <<"c", "o", "n", "t", "e", "n", "t">>
K_title == <<"t", "i", "t", "l", "e">>
K_description == <<"d", "e", "s", "c", "r", "i", "p", "t", "i", "o", "n">>
K_pubDate == <<"p", "u", "b", "D", "a", "t", "e">>
K_category == <<"c", "a", "t", "e", "g", "o", "r", "y">>
K_tags == <<"t", "a", "g", "s">>
K_draft == <<"d", "r", "a", "f", "t">>

\* { slug, ...frontmatter, content: content.replace(...) }: a key of the
\* frontmatter replaces the slug put first, the content put last replaces
\* a key of the frontmatter.
PostObject(slug, content) ==
    LET frontmatter == Frontmatter(content)
        spread == [k \in {K_slug} \cup DOMAIN frontmatter |->
                      IF k \in DOMAIN frontmatter THEN frontmatter[k]
                      ELSE StringValue(slug)]
    IN MapSet(spread, K_content, StringValue(StripFrontmatter(content)))

----------------------------------------------------------------------------
(* Dates.  The clock of the model stays within January 1970.               *)

MsPerDay == 24 * 60 * 60 * 1000

DecimalDigits == <<"0", "1", "2", "3", "4", "5", "6", "7", "8", "9">>

TwoDigits(n) == <<DecimalDigits[(n \div 10) + 1], DecimalDigits[(n % 10) + 1]>>

DigitValue(c) == (CHOOSE i \in DOMAIN DecimalDigits : DecimalDigits[i] = c) - 1

January1970 == <<"1", "9", "7", "0", "-", "0", "1", "-">>

\* new Date(t).toISOString().split('T')[0], for t in January 1970.
toISODate(t) == January1970 \o TwoDigits((t \div MsPerDay) + 1)

\* getTime() of an invalid date.
NaN == -1

\* new Date(s).getTime() for the text of a day of January 1970; any other
\* text of the model is no date.
DateParse(s) ==
    IF /\ Len(s) = 10
       /\ SubSeq(s, 1, 8) = January1970
       /\ s[9] \in DigitChars
       /\ s[10] \in DigitChars
       /\ 10 * DigitValue(s[9]) + DigitValue(s[10]) \in 1..31
    THEN (10 * DigitValue(s[9]) + DigitValue(s[10]) - 1) * MsPerDay
    ELSE NaN

----------------------------------------------------------------------------
(* Post repository.                                                         *)

DotMd == <<".", "m", "d">>

\* `${slug}.md`
FileOf(slug) == slug \o DotMd

\* A request body without slug, or with an empty one: existingSlug is
\* falsy.
NoSlug == <<>>

\* `"${t}"`
Quoted(t) == <<"\"">> \o t \o <<"\"">>

\* The document POST /api/posts writes at time t for the request body
\* fields.
Markdown(fields, t) ==
    <<"-", "-", "-", "\n", "t", "i", "t", "l", "e", ":", " ", "\"">>
    \o fields.title
    \o <<"\"", "\n", "d", "e", "s", "c", "r", "i", "p", "t", "i", "o", "n",
      ":", " ", "\"">>
    \o fields.description
    \o <<"\"", "\n", "p", "u", "b", "D", "a", "t", "e", ":", " ">>
    \o toISODate(t)
    \o <<"\n", "c", "a", "t", "e", "g", "o", "r", "y", ":", " ">>
    \o fields.category
    \o <<"\n", "t", "a", "g", "s", ":", " ", "[">>
    \o Join([i \in DOMAIN fields.tags |-> Quoted(fields.tags[i])], <<",", " ">>)
    \o <<"]", "\n", "d", "r", "a", "f", "t", ":", " ", "f", "a", "l", "s",
      "e", "\n", "-", "-", "-", "\n", "\n">>
    \o fields.content

\* The request bodies the editor sends (handleSave): the first scenario of
\* the specification, a draft whose title gives the same slug, and a post
\* with another title and two tags.
HelloWorldPost ==
    [title |-> <<"H", "e", "l", "l", "o", " ", "W", "o", "r", "l", "d">>,
     description |-> <<"d">>,
     category |-> <<"t", "e", "c", "h">>,
     tags |-> << <<"x">> >>,
     content |-> <<"b", "o", "d", "y">>,
     draft |-> FALSE,
     slug |-> NoSlug]

HelloWorldDraft ==
    [title |-> HelloWorldTitle,
     description |-> <<>>,
     category |-> <<"l", "i", "f", "e">>,
     tags |-> <<>>,
     content |-> <<"n", "e", "w">>,
     draft |-> TRUE,
     slug |-> NoSlug]

AboutPost ==
    [title |-> <<"A", "b", "o", "u", "t">>,
     description |-> <<"d">>,
     category |-> <<"t", "e", "c", "h">>,
     tags |-> << <<"x">>, <<"y">> >>,
     content |-> <<"b">>,
     draft |-> FALSE,
     slug |-> NoSlug]

PostInputs == {HelloWorldPost, HelloWorldDraft, AboutPost}

HelloWorldSlug == <<"h", "e", "l", "l", "o", "-", "w", "o", "r", "l", "d">>
AboutSlug == <<"a", "b", "o", "u", "t">>
OldSlug == <<"o", "l", "d">>
NewSlug == <<"n", "e", "w">>

\* The slugs an update request carries (none: a creation).
ExistingSlugs == {NoSlug, HelloWorldSlug}

\* The slugs asked for and deleted.
RequestSlugs == {HelloWorldSlug, AboutSlug, OldSlug, NewSlug}

\* A document written by hand into the post directory, without pubDate
\* and with a slug key of its own.
OldDocument ==
    <<"-", "-", "-", "\n", "t", "i", "t", "l", "e", ":", " ", "O", "l",
      "d", "\n", "s", "l", "u", "g", ":", " ", "n", "e", "w", "\n", "t",
      "a", "g", "s", ":", " ", "[", "'", "a", "'", "]", "\n", "-", "-",
      "-", "\n", "t", "e", "x", "t">>

\* The post directory when the server starts.
InitialBlogDir == [f \in {FileOf(OldSlug)} |-> OldDocument]

\* fs.writeFileSync that refuses to replace an existing file (flag 'wx').
BlogDirAfterPut_Exclusive(dir, file, markdown) ==
    IF file \in DOMAIN dir THEN dir ELSE MapSet(dir, file, markdown)

\* fs.writeFileSync(filepath, markdown)
BlogDirAfterPut(dir, file, markdown) == MapSet(dir, file, markdown)

\* A delete that empties the file and leaves it in the directory.
BlogDirAfterDelete_Truncate(dir, file) == MapSet(dir, file, <<>>)

\* fs.unlinkSync(filepath)
BlogDirAfterDelete(dir, file) == MapDelete(dir, file)

\* The orders in which fs.readdirSync can yield the files of dir.
ReaddirOrders(dir) ==
    {files \in [1..Cardinality(DOMAIN dir) -> DOMAIN dir] :
        \A i, j \in DOMAIN files : i # j => files[i] # files[j]}

\* files.filter(f => f.endsWith('.md'))
RECURSIVE FilterMd(_)
FilterMd(files) ==
    IF files = <<>> THEN <<>>
    ELSE IF EndsWith(Head(files), DotMd)
         THEN <<Head(files)>> \o FilterMd(Tail(files))
         ELSE FilterMd(Tail(files))

\* new Date(a.pubDate || '1970-01-01').getTime(); an array is no date.
PubTime(post) ==
    IF K_pubDate \notin DOMAIN post THEN 0
    ELSE IF post[K_pubDate].kind = "array" THEN NaN
    ELSE IF post[K_pubDate].chars = <<>> THEN 0
    ELSE DateParse(post[K_pubDate].chars)

\* The comparator of posts.sort: dateB - dateA, a NaN counting as 0.
Compare(a, b) ==
    IF PubTime(a) = NaN \/ PubTime(b) = NaN THEN 0 ELSE PubTime(b) - PubTime(a)

\* Array.prototype.sort is stable: a post goes behind every post the
\* comparator does not put after it.
RECURSIVE InsertSorted(_, _)
InsertSorted(sorted, post) ==
    IF sorted = <<>> THEN <<post>>
    ELSE IF Compare(Head(sorted), post) <= 0
         THEN <<Head(sorted)>> \o InsertSorted(Tail(sorted), post)
         ELSE <<post>> \o sorted

RECURSIVE SortPosts(_, _)
SortPosts(sorted, posts) ==
    IF posts = <<>> THEN sorted
    ELSE SortPosts(InsertSorted(sorted, Head(posts)), Tail(posts))

\* The array GET /api/posts answers with when readdirSync yields files;
\* decoded holds the post object of every file.
PostList(decoded, files) ==
    LET md == FilterMd(files)
    IN SortPosts(<<>>, [i \in DOMAIN md |-> decoded[md[i]]])

\* The post object GET /api/posts builds for every file of dir.
DecodedFiles(dir) ==
    [file \in DOMAIN dir |-> PostObject(RemoveFirst(file, DotMd), dir[file])]

----------------------------------------------------------------------------
(* The event loop.  A handler runs on the one JavaScript thread until it   *)
(* returns or awaits; the comment handlers await nothing but the request   *)
(* body, and read and write the comment file with the synchronous          *)
(* fs.readFileSync and fs.writeFileSync.                                   *)

\* Connections that carry one comment mutation at a time, and the author
\* each one writes as.
Connections == {"c1", "c2"}

AuthorOf == [r \in Connections |-> IF r = "c1" THEN "Alice" ELSE "Bob"]

\* The thread runs no handler.
Nobody == ""

\* A connection without request.  phase tells how far the handler of a
\* request is: awaitBody (suspended in await parseBody), ready (its
\* callback is queued for the thread), read (it holds the parsed comment
\* file in comments, here buf, and has not written).
NoRequest ==
    [phase |-> "idle", kind |-> "none", token |-> NoToken, postSlug |-> "",
     author |-> "", commentId |-> NoId, buf |-> EmptyMap]

\* The ids the DELETE requests of the connections name: that of the
\* comments added at the start time.
FirstIds == {0}

\* A runtime with a thread per request.
CanStart_Parallel(run) == TRUE

\* The thread takes up a queued callback only when it runs no other.
CanStart(run) == run = Nobody

----------------------------------------------------------------------------
(* The last request handled and its response.  op names the handler;       *)
(* token, postSlug and commentId are the request's; found tells whether    *)
(* the token was in the registry when the request arrived; originalCount   *)
(* is the length the DELETE handler logs; status, body and store are the   *)
(* response (body: an array of comments, store: the whole mapping).  For   *)
(* the post handlers fields is the request body, slug the slug of the      *)
(* path or of the response, existed tells whether the file was there when  *)
(* the request arrived, files is what readdirSync yielded, and post and    *)
(* posts are the response.  isAuthor is the flag of the body the client    *)
(* sent with a comment; failed names the fs call that threw while the      *)
(* request was handled ("" when none did).  For the decoding of a          *)
(* document, text is the document and value the right-hand side of its     *)
(* one frontmatter line.                                                   *)

NoFields ==
    [title |-> <<>>, description |-> <<>>, category |-> <<>>, tags |-> <<>>,
     content |-> <<>>, draft |-> FALSE, slug |-> NoSlug]

NoExchange ==
    [op |-> "none", status |-> 0, token |-> NoToken, found |-> FALSE,
     postSlug |-> "", commentId |-> NoId, originalCount |-> 0,
     body |-> <<>>, store |-> EmptyMap,
     fields |-> NoFields, slug |-> NoSlug, existed |-> FALSE,
     files |-> <<>>, post |-> EmptyObject, posts |-> <<>>,
     isAuthor |-> FALSE, failed |-> "", text |-> <<>>, value |-> <<>>]

Init ==
    /\ now = 0
    /\ sessions = [k \in {} |-> [expires |-> 0]]
    /\ commentsFile = EmptyMap
    /\ last = NoExchange
    /\ blogDir = InitialBlogDir
    /\ titleArg = <<>>
    /\ slugOut = generateSlug(<<>>)
    /\ reqs = [r \in Connections |-> NoRequest]
    /\ running = Nobody
    /\ issued = {}

\* Date.now() moves forward between requests.
Tick ==
    /\ \E t \in Times : t > now /\ now' = t
    /\ UNCHANGED <<sessions, commentsFile, last, beyondComments>>

\* POST /api/auth/login with the given password, generateSessionToken()
\* returning token.
LoginReq(password, token) ==
    IF password = ADMIN_PASSWORD
    THEN /\ sessions' = MapSet(sessions, token, NewSession(now))
         /\ last' = [NoExchange EXCEPT !.op = "login", !.status = 200,
                                       !.token = token]
         /\ UNCHANGED <<now, commentsFile, beyondComments>>
    ELSE /\ last' = [NoExchange EXCEPT !.op = "login", !.status = 401]
         /\ UNCHANGED <<now, sessions, commentsFile, beyondComments>>

Login ==
    \E password \in Passwords, token \in Tokens : LoginReq(password, token)

\* A generator that may return a value it has returned before.
FreshTokens_Any(iss) == Tokens

\* What generateSessionToken() can return when the values in iss are out:
\* a random string followed by Date.now(), hence a value not seen before.
FreshTokens(iss) == Tokens \ iss

\* POST /api/auth/login, the token generator returning a new value on
\* every call.
LoginFresh ==
    \E password \in Passwords, token \in FreshTokens(issued) :
        IF password = ADMIN_PASSWORD
        THEN /\ sessions' = MapSet(sessions, token, NewSession(now))
             /\ issued' = issued \cup {token}
             /\ last' = [NoExchange EXCEPT !.op = "login", !.status = 200,
                                           !.token = token]
             /\ UNCHANGED <<now, commentsFile, postVars, slugVars, loopVars>>
        ELSE /\ last' = [NoExchange EXCEPT !.op = "login", !.status = 401]
             /\ UNCHANGED <<now, sessions, commentsFile, beyondComments>>

\* Login when generateSessionToken() returns the same value every time.
LoginOne ==
    \E password \in Passwords : LoginReq(password, "t1")

\* POST /api/auth/verify
Verify ==
    \E token \in Tokens \cup {NoToken} :
        LET r == isValidSession(sessions, token, now)
        IN /\ sessions' = r.sessions
           /\ last' = [NoExchange EXCEPT !.op = "verify",
                                         !.status = IF r.valid THEN 200 ELSE 401,
                                         !.token = token,
                                         !.found = token \in DOMAIN sessions]
           /\ UNCHANGED <<now, commentsFile, beyondComments>>

\* POST /api/auth/logout
Logout ==
    \E token \in Tokens \cup {NoToken} :
        /\ sessions' = SessionsAfterLogout(sessions, token)
        /\ last' = [NoExchange EXCEPT !.op = "logout", !.status = 200,
                                      !.token = token,
                                      !.found = token \in DOMAIN sessions]
        /\ UNCHANGED <<now, commentsFile, beyondComments>>

\* What GET /api/comments?post=<postSlug> answers: comments[postSlug] || [].
\* An inherited value is a function, which JSON.stringify leaves out.
ListResult(comments, postSlug) ==
    IF PropKind(comments, postSlug) = "array" THEN comments[postSlug] ELSE <<>>

\* GET /api/comments?post=<postSlug> and GET /api/comments
ListComments ==
    \/ \E postSlug \in PostSlugs :
          /\ last' = [NoExchange EXCEPT !.op = "listComments", !.status = 200,
                                        !.postSlug = postSlug,
                                        !.body = ListResult(commentsFile, postSlug)]
          /\ UNCHANGED <<now, sessions, commentsFile, beyondComments>>
    \/ /\ last' = [NoExchange EXCEPT !.op = "listComments", !.status = 200,
                                     !.store = commentsFile]
       /\ UNCHANGED <<now, sessions, commentsFile, beyondComments>>

\* The record the POST /api/comments handler builds at time t.
NewComment(postSlug, content, author, authorColor, t) ==
    [id |-> t, author |-> author, authorColor |-> authorColor,
     content |-> content, createdAt |-> t, postSlug |-> postSlug]

\* A write-back of the partition that was changed, without the others.
CommentsAfterAdd_OnlyPartition(comments, postSlug, newComment) ==
    [k \in {postSlug} |->
        Append(IF postSlug \in DOMAIN comments THEN comments[postSlug] ELSE <<>>,
               newComment)]

\* The mapping the POST /api/comments handler writes back, given the one
\* it read (comments[postSlug] is undefined or an array here).
CommentsAfterAdd(comments, postSlug, newComment) ==
    LET c1 == IF PropKind(comments, postSlug) = "undefined"
              THEN MapSet(comments, postSlug, <<>>)
              ELSE comments
    IN MapSet(c1, postSlug, Append(c1[postSlug], newComment))

\* POST /api/comments
AddComment ==
    \E postSlug \in PostSlugs, content \in Contents, author \in Authors,
       authorColor \in Colors :
        /\ TotalComments(commentsFile) < MaxComments
        /\ UNCHANGED beyondComments
        /\ IF PropKind(commentsFile, postSlug) = "inherited"
           THEN \* comments[postSlug] is truthy and has no push: TypeError,
                \* caught by the handler's catch, nothing written.
                /\ last' = [NoExchange EXCEPT !.op = "addComment",
                                              !.status = 500,
                                              !.postSlug = postSlug]
                /\ UNCHANGED <<now, sessions, commentsFile>>
           ELSE LET newComment ==
                        NewComment(postSlug, content, author, authorColor, now)
                IN /\ commentsFile' =
                          CommentsAfterAdd(commentsFile, postSlug, newComment)
                   /\ last' = [NoExchange EXCEPT !.op = "addComment",
                                                 !.status = 200,
                                                 !.postSlug = postSlug,
                                                 !.commentId = newComment.id,
                                                 !.body = <<newComment>>]
                   /\ UNCHANGED <<now, sessions>>

\* submitComment of the client (lib/api.ts): POST /api/comments with the
\* body {postSlug, content, author, authorColor, isAuthor}.  The handler
\* takes postSlug, content, author and authorColor out of the body.
SubmitCommentReq(postSlug, content, author, authorColor, isAuthor) ==
    LET req == [NoExchange EXCEPT !.op = "addComment", !.postSlug = postSlug,
                                  !.isAuthor = isAuthor]
        newComment == NewComment(postSlug, content, author, authorColor, now)
    IN /\ TotalComments(commentsFile) < MaxComments
       /\ UNCHANGED beyondComments
       /\ IF PropKind(commentsFile, postSlug) = "inherited"
          THEN /\ last' = [req EXCEPT !.status = 500]
               /\ UNCHANGED <<now, sessions, commentsFile>>
          ELSE /\ commentsFile' =
                      CommentsAfterAdd(commentsFile, postSlug, newComment)
               /\ last' = [req EXCEPT !.status = 200,
                                      !.commentId = newComment.id,
                                      !.body = <<newComment>>]
               /\ UNCHANGED <<now, sessions>>

SubmitComment ==
    \E postSlug \in PostSlugs, content \in Contents, author \in Authors,
       authorColor \in Colors, isAuthor \in BOOLEAN :
        SubmitCommentReq(postSlug, content, author, authorColor, isAuthor)

\* The guard written with && instead of ||: any non-empty token passes.
DeleteAuth_AnyToken(s, token, t) ==
    [valid |-> token # NoToken,
     sessions |-> IF token = NoToken THEN s
                  ELSE isValidSession(s, token, t).sessions]

\* The authorization part of DELETE /api/comments/:slug/:id: the token is
\* checked once for the log line and once for the decision.
DeleteAuth(s, token, t) ==
    IF token = NoToken THEN [valid |-> FALSE, sessions |-> s]
    ELSE isValidSession(isValidSession(s, token, t).sessions, token, t)

\* The mapping the DELETE handler writes back (comments[postSlug] is an
\* array here).
CommentsAfterRemove(comments, postSlug, commentId) ==
    MapSet(comments, postSlug, FilterOutId(comments[postSlug], commentId))

\* A handler that answers 404 when there is no partition for postSlug.
RemoveStatus_NotFound(comments, postSlug) ==
    IF postSlug \in DOMAIN comments THEN 200
    ELSE IF postSlug \in ObjectPrototypeKeys THEN 500
    ELSE 404

\* The status the DELETE handler answers with once the caller is
\* authorized: comments[postSlug].filter throws on an inherited value.
RemoveStatus(comments, postSlug) ==
    IF PropKind(comments, postSlug) = "inherited" THEN 500 ELSE 200

\* DELETE /api/comments/:postSlug/:commentId
DeleteComment ==
    \E token \in Tokens \cup {NoToken}, postSlug \in PostSlugs,
       commentId \in CommentIds :
        LET a == DeleteAuth(sessions, token, now)
            req == [NoExchange EXCEPT !.op = "deleteComment", !.token = token,
                                      !.found = token \in DOMAIN sessions,
                                      !.postSlug = postSlug,
                                      !.commentId = commentId]
        IN /\ sessions' = a.sessions
           /\ UNCHANGED <<now, beyondComments>>
           /\ IF ~a.valid
              THEN /\ last' = [req EXCEPT !.status = 401]
                   /\ UNCHANGED commentsFile
              ELSE /\ last' = [req EXCEPT
                                  !.status = RemoveStatus(commentsFile, postSlug),
                                  !.originalCount =
                                      Len(ListResult(commentsFile, postSlug))]
                   /\ commentsFile' =
                          IF PropKind(commentsFile, postSlug) = "array"
                          THEN CommentsAfterRemove(commentsFile, postSlug,
                                                   commentId)
                          ELSE commentsFile

\* POST /api/posts with the request body fields.
PutPostReq(fields) ==
    LET slug == IF fields.slug # NoSlug THEN fields.slug
                ELSE generateSlug(fields.title)
        file == FileOf(slug)
    IN /\ blogDir' = BlogDirAfterPut(blogDir, file, Markdown(fields, now))
       /\ last' = [NoExchange EXCEPT !.op = "putPost", !.status = 200,
                                     !.fields = fields, !.slug = slug,
                                     !.existed = file \in DOMAIN blogDir]
       /\ UNCHANGED <<now, sessions, commentsFile, slugVars, loopVars,
                   issued>>

\* createPost and updatePost of the editor.
PutPost ==
    \E fields \in PostInputs, existingSlug \in ExistingSlugs :
        PutPostReq([fields EXCEPT !.slug = existingSlug])

\* GET /api/posts/:slug
GetPost ==
    \E slug \in RequestSlugs :
        LET file == FileOf(slug)
            req == [NoExchange EXCEPT !.op = "getPost", !.slug = slug,
                                      !.existed = file \in DOMAIN blogDir]
        IN /\ last' = IF file \in DOMAIN blogDir
                      THEN [req EXCEPT !.status = 200,
                                       !.post = PostObject(slug, blogDir[file])]
                      ELSE [req EXCEPT !.status = 404]
           /\ UNCHANGED <<now, sessions, commentsFile, blogDir, slugVars, loopVars,
                   issued>>

\* GET /api/posts, fs.readdirSync yielding the files in any order.
ListPosts ==
    LET decoded == DecodedFiles(blogDir)
    IN \E files \in ReaddirOrders(blogDir) :
        /\ last' = [NoExchange EXCEPT !.op = "listPosts", !.status = 200,
                                      !.files = files,
                                      !.posts = PostList(decoded, files)]
        /\ UNCHANGED <<now, sessions, commentsFile, blogDir, slugVars, loopVars,
                   issued>>

\* The DELETE /api/posts handler never opens COMMENTS_FILE; this is a
\* handler that drops the partition of the post with the document.
CommentsAfterDeletePost_Cascade(comments, slug) ==
    [k \in {p \in DOMAIN comments : SlugText[p] # slug} |-> comments[k]]

\* The comment file after DELETE /api/posts/:slug.
CommentsAfterDeletePost(comments, slug) == comments

\* A DELETE /api/posts/:slug that asks for a valid session, as the comment
\* DELETE does.
DeletePostReq_Gated(slug) ==
    LET file == FileOf(slug)
        req == [NoExchange EXCEPT !.op = "deletePost", !.slug = slug,
                                  !.existed = file \in DOMAIN blogDir]
    IN /\ IF \A k \in DOMAIN sessions : now > sessions[k].expires
          THEN /\ last' = [req EXCEPT !.status = 401]
               /\ UNCHANGED <<blogDir, commentsFile>>
          ELSE IF file \in DOMAIN blogDir
          THEN /\ blogDir' = BlogDirAfterDelete(blogDir, file)
               /\ commentsFile' = commentsFile
               /\ last' = [req EXCEPT !.status = 200]
          ELSE /\ last' = [req EXCEPT !.status = 404]
               /\ UNCHANGED <<blogDir, commentsFile>>
       /\ UNCHANGED <<now, sessions, slugVars, loopVars, issued>>

\* DELETE /api/posts/:slug
DeletePostReq(slug) ==
    LET file == FileOf(slug)
        req == [NoExchange EXCEPT !.op = "deletePost", !.slug = slug,
                                  !.existed = file \in DOMAIN blogDir]
    IN /\ IF file \in DOMAIN blogDir
          THEN /\ blogDir' = BlogDirAfterDelete(blogDir, file)
               /\ commentsFile' = CommentsAfterDeletePost(commentsFile, slug)
               /\ last' = [req EXCEPT !.status = 200]
          ELSE /\ last' = [req EXCEPT !.status = 404]
               /\ UNCHANGED <<blogDir, commentsFile>>
       /\ UNCHANGED <<now, sessions, slugVars, loopVars,
                   issued>>

DeletePost ==
    \E slug \in RequestSlugs : DeletePostReq(slug)

\* A point of a handler at which a call into fs can throw.
FailurePoint(op, call, slug, postSlug, token) ==
    [op |-> op, call |-> call, slug |-> slug, postSlug |-> postSlug,
     token |-> token]

\* The fs calls the post and comment handlers reach on directory dir,
\* comment file comments and registry s at time t, each with the request
\* that reaches it.  fs.existsSync does not throw.  The comment DELETE
\* reaches the file only when it is authorized, and writes only when the
\* partition is there; the add writes unless comments[postSlug].push
\* threw before.
FailurePoints(dir, comments, s, t) ==
    {FailurePoint("listPosts", "readdirSync", NoSlug, "", NoToken)}
    \cup {FailurePoint("listPosts", "readFileSync", NoSlug, "", NoToken) :
             f \in {f \in DOMAIN dir : EndsWith(f, DotMd)}}
    \cup {FailurePoint("putPost", "writeFileSync", slug, "", NoToken) :
             slug \in {HelloWorldSlug, AboutSlug}}
    \cup {FailurePoint("getPost", "readFileSync", slug, "", NoToken) :
             slug \in {g \in RequestSlugs : FileOf(g) \in DOMAIN dir}}
    \cup {FailurePoint("deletePost", "unlinkSync", slug, "", NoToken) :
             slug \in {g \in RequestSlugs : FileOf(g) \in DOMAIN dir}}
    \cup {FailurePoint("listComments", "readFileSync", NoSlug, "", NoToken)}
    \cup {FailurePoint("addComment", "readFileSync", NoSlug, p, NoToken) :
             p \in PostSlugs}
    \cup {FailurePoint("addComment", "writeFileSync", NoSlug, p, NoToken) :
             p \in {q \in PostSlugs : PropKind(comments, q) # "inherited"}}
    \cup {FailurePoint("deleteComment", "readFileSync", NoSlug, x[1], x[2]) :
             x \in {y \in PostSlugs \X Tokens : DeleteAuth(s, y[2], t).valid}}
    \cup {FailurePoint("deleteComment", "writeFileSync", NoSlug, x[1], x[2]) :
             x \in {y \in PostSlugs \X Tokens :
                      /\ DeleteAuth(s, y[2], t).valid
                      /\ PropKind(comments, y[1]) = "array"}}

\* A catch block that swallows the error and answers with success.
Caught_Swallowed(req) == [req EXCEPT !.status = 200]

\* catch (error): the request req that threw is answered 500.
Caught(req) == [req EXCEPT !.status = 500]

\* A post or comment request during which a call into fs throws (the
\* call fails before it has changed the file): the exception leaves the
\* handler, which has not answered yet, and reaches the catch.  A DELETE
\* of a comment gets that far with a valid session only, which the check
\* leaves in the registry.
StorageFailure ==
    \E f \in FailurePoints(blogDir, commentsFile, sessions, now) :
        /\ last' = Caught([NoExchange EXCEPT !.op = f.op, !.failed = f.call,
                                             !.slug = f.slug,
                                             !.postSlug = f.postSlug,
                                             !.token = f.token])
        /\ UNCHANGED <<now, sessions, commentsFile, beyondComments>>

\* The comments written and those about to be: the adds in flight count.
CommentsInFlight ==
    Cardinality({r \in Connections : reqs[r].kind = "add"})

\* A POST /api/comments arrives on connection r: the handler starts and
\* suspends in await parseBody(req).
ArriveAddOn(r) ==
    /\ reqs[r].phase = "idle"
    /\ CanStart(running)
    /\ TotalComments(commentsFile) + CommentsInFlight < MaxComments
    /\ \E postSlug \in PostSlugs :
          reqs' = [reqs EXCEPT ![r] =
                      [NoRequest EXCEPT !.phase = "awaitBody", !.kind = "add",
                                        !.postSlug = postSlug,
                                        !.author = AuthorOf[r]]]
    /\ UNCHANGED <<now, sessions, commentsFile, last, running,
                   postVars, slugVars, issued>>

ArriveAdd == \E r \in Connections : ArriveAddOn(r)

\* The 'end' event of the request body: the promise of parseBody resolves
\* and the rest of the handler is queued.
BodyEndOn(r) ==
    /\ reqs[r].phase = "awaitBody"
    /\ reqs' = [reqs EXCEPT ![r].phase = "ready"]
    /\ UNCHANGED <<now, sessions, commentsFile, last, running,
                   postVars, slugVars, issued>>

BodyEnd == \E r \in Connections : BodyEndOn(r)

\* A DELETE /api/comments/:postSlug/:commentId arrives on connection r:
\* its handler, which awaits nothing, is queued.
ArriveRemoveOn(r) ==
    /\ reqs[r].phase = "idle"
    /\ \E token \in {"t1", NoToken}, postSlug \in PostSlugs,
          commentId \in FirstIds :
          reqs' = [reqs EXCEPT ![r] =
                      [NoRequest EXCEPT !.phase = "ready", !.kind = "remove",
                                        !.token = token,
                                        !.postSlug = postSlug,
                                        !.commentId = commentId]]
    /\ UNCHANGED <<now, sessions, commentsFile, last, running,
                   postVars, slugVars, issued>>

ArriveRemove == \E r \in Connections : ArriveRemoveOn(r)

\* The thread takes up the queued handler of connection r and runs it
\* through fs.readFileSync; a DELETE is authorized first and, refused,
\* answered 401 at once.
ReadStoreOn(r) ==
    LET q == reqs[r]
        a == IF q.kind = "remove" THEN DeleteAuth(sessions, q.token, now)
             ELSE [valid |-> TRUE, sessions |-> sessions]
    IN /\ q.phase = "ready"
       /\ CanStart(running)
       /\ sessions' = a.sessions
       /\ IF a.valid
          THEN /\ reqs' = [reqs EXCEPT ![r].phase = "read",
                                       ![r].buf = commentsFile]
               /\ running' = r
               /\ UNCHANGED last
          ELSE /\ reqs' = [reqs EXCEPT ![r] = NoRequest]
               /\ last' = [NoExchange EXCEPT !.op = "deleteComment",
                                             !.status = 401,
                                             !.token = q.token,
                                             !.found = q.token \in DOMAIN sessions,
                                             !.postSlug = q.postSlug,
                                             !.commentId = q.commentId]
               /\ UNCHANGED running
       /\ UNCHANGED <<now, commentsFile, postVars, slugVars, issued>>

ReadStore == \E r \in Connections : ReadStoreOn(r)

\* The handler of connection r, holding the parsed file, changes it in
\* memory, writes it back with fs.writeFileSync (unless comments[postSlug]
\* throws or is undefined), answers and returns.
WriteStoreOn(r) ==
    LET q == reqs[r]
        kind == PropKind(q.buf, q.postSlug)
        newComment == NewComment(q.postSlug, "nice post", q.author, "#ff0000", now)
    IN /\ q.phase = "read"
       /\ running = r
       /\ running' = Nobody
       /\ reqs' = [reqs EXCEPT ![r] = NoRequest]
       /\ IF q.kind = "add"
          THEN IF kind = "inherited"
               THEN /\ last' = [NoExchange EXCEPT !.op = "addComment",
                                                  !.status = 500,
                                                  !.postSlug = q.postSlug]
                    /\ UNCHANGED commentsFile
               ELSE /\ commentsFile' =
                           CommentsAfterAdd(q.buf, q.postSlug, newComment)
                    /\ last' = [NoExchange EXCEPT !.op = "addComment",
                                                  !.status = 200,
                                                  !.postSlug = q.postSlug,
                                                  !.commentId = newComment.id,
                                                  !.body = <<newComment>>]
          ELSE /\ commentsFile' =
                      IF kind = "array"
                      THEN CommentsAfterRemove(q.buf, q.postSlug, q.commentId)
                      ELSE commentsFile
               /\ last' = [NoExchange EXCEPT
                              !.op = "deleteComment",
                              !.status = RemoveStatus(q.buf, q.postSlug),
                              !.token = q.token,
                              !.found = q.token \in DOMAIN sessions,
                              !.postSlug = q.postSlug,
                              !.commentId = q.commentId,
                              !.originalCount =
                                  Len(ListResult(q.buf, q.postSlug))]
       /\ UNCHANGED <<now, sessions, postVars, slugVars, issued>>

WriteStore == \E r \in Connections : WriteStoreOn(r)

\* The creation of the post "Hello World", and its deletion.
CreateHelloWorld == PutPostReq(HelloWorldPost)

DeleteHelloWorld == DeletePostReq(HelloWorldSlug)

\* A call generateSlug(title).
GenerateSlug ==
    \E title \in SlugTitles :
        /\ titleArg' = title
        /\ slugOut' = generateSlug(title)
        /\ UNCHANGED <<now, sessions, commentsFile, last, postVars, loopVars,
                   issued>>

\* The frontmatter codec on documents of its own.  The right-hand sides
\* of a frontmatter line: texts of quotes, a letter, a closing bracket and
\* blanks, as they are or behind an opening bracket.
MaxValueLen == 3

ValueChars == {"\"", "'", "a", "]", " "}

PlainValues == UNION {[1..n -> ValueChars] : n \in 0..MaxValueLen}

BracketValues == {<<"[">> \o v : v \in PlainValues}

ValueKey == <<"k">>

\* The document with the one frontmatter line "k: value".
DocumentOf(value) ==
    <<"-", "-", "-", "\n", "k", ":", " ">> \o value
    \o <<"\n", "-", "-", "-", "\n", "\n", "b", "o", "d", "y">>

\* Documents given line by line: marker lines, a line of four hyphens, a
\* key with value, a line of text and the empty line.
MaxLines == 3

Marker == <<"-", "-", "-">>

TextLines ==
    {Marker, <<"-", "-", "-", "-">>, <<"a", ":", " ", "b">>, <<"x">>, <<>>}

LinesToText(lines) == Join(lines, <<"\n">>)

DocumentLines == UNION {[1..n -> TextLines] : n \in 1..MaxLines}

\* A request body whose content starts with an empty line.
BlankLinePost ==
    [title |-> <<"A", "b", "o", "u", "t">>,
     description |-> <<"d">>,
     category |-> <<"t", "e", "c", "h">>,
     tags |-> << <<"x">> >>,
     content |-> <<"\n", "b">>,
     draft |-> FALSE,
     slug |-> NoSlug]

RoundTripInputs == PostInputs \cup {BlankLinePost}

\* What is handed to the codec: a document with one frontmatter line, a
\* document given by its lines, or a request body to encode.
CodecInputs ==
    {[NoExchange EXCEPT !.op = "valueDocument", !.value = v,
                        !.text = DocumentOf(v)] :
        v \in PlainValues \cup BracketValues}
    \cup {[NoExchange EXCEPT !.op = "textDocument",
                             !.text = LinesToText(lines)] :
             lines \in DocumentLines}
    \cup {[NoExchange EXCEPT !.op = "postBody", !.fields = fields] :
             fields \in RoundTripInputs}

\* The server with one input for the codec at hand, at any time.
InitCodec ==
    /\ now \in Times
    /\ sessions = [k \in {} |-> [expires |-> 0]]
    /\ commentsFile = EmptyMap
    /\ last \in CodecInputs
    /\ blogDir = InitialBlogDir
    /\ titleArg = <<>>
    /\ slugOut = generateSlug(<<>>)
    /\ reqs = [r \in Connections |-> NoRequest]
    /\ running = Nobody
    /\ issued = {}

\* The GET handler decodes the document whose frontmatter is the line
\* "k: value".
DecodeValue ==
    /\ last.op = "valueDocument"
    /\ last' = [last EXCEPT !.op = "decodeValue", !.status = 200,
                            !.post = PostObject(NoSlug, last.text)]
    /\ UNCHANGED <<now, sessions, commentsFile, beyondComments>>

\* The GET handler decodes the document given by its lines.
DecodeText ==
    /\ last.op = "textDocument"
    /\ last' = [last EXCEPT !.op = "decodeText", !.status = 200,
                            !.post = PostObject(NoSlug, last.text)]
    /\ UNCHANGED <<now, sessions, commentsFile, beyondComments>>

\* The document the POST handler builds for the request body, decoded as
\* the GET handler decodes it.
RoundTrip ==
    /\ last.op = "postBody"
    /\ last' = [last EXCEPT !.op = "roundTrip", !.status = 200,
                            !.text = Markdown(last.fields, now),
                            !.post = PostObject(NoSlug,
                                                Markdown(last.fields, now))]
    /\ UNCHANGED <<now, sessions, commentsFile, beyondComments>>

\* Every handler of the server.
Next ==
    \/ Tick
    \/ Login
    \/ Verify
    \/ Logout
    \/ ListComments
    \/ AddComment
    \/ DeleteComment
    \/ ListPosts
    \/ PutPost
    \/ GetPost
    \/ DeletePost
    \/ GenerateSlug
    \/ ArriveAdd
    \/ BodyEnd
    \/ ArriveRemove
    \/ ReadStore
    \/ WriteStore
    \/ LoginFresh
    \/ SubmitComment
    \/ StorageFailure
    \/ DecodeValue
    \/ DecodeText
    \/ RoundTrip

Spec == Init /\ [][Next]_vars

\* The session registry alone: the auth handlers and the clock.
NextSessions ==
    \/ Tick
    \/ Login
    \/ Verify
    \/ Logout

SpecSessions == Init /\ [][NextSessions]_vars

\* The comment log with the authorization its DELETE handler needs.
NextComments ==
    \/ Tick
    \/ LoginOne
    \/ Logout
    \/ ListComments
    \/ AddComment
    \/ DeleteComment

SpecComments == Init /\ [][NextComments]_vars

\* The post repository and the clock.
NextPosts ==
    \/ Tick
    \/ ListPosts
    \/ PutPost
    \/ GetPost
    \/ DeletePost

SpecPosts == Init /\ [][NextPosts]_vars

\* The two stores side by side: the comment log, and one post that
\* comes and goes.
NextStores ==
    \/ LoginOne
    \/ ListComments
    \/ AddComment
    \/ DeleteComment
    \/ CreateHelloWorld
    \/ DeleteHelloWorld

SpecStores == Init /\ [][NextStores]_vars

\* Comment mutations arriving on two connections at once, their handlers
\* taken step by step.
NextLoop ==
    \/ LoginOne
    \/ ArriveAdd
    \/ BodyEnd
    \/ ArriveRemove
    \/ ReadStore
    \/ WriteStore

SpecLoop == Init /\ [][NextLoop]_vars

\* The frontmatter codec on its own: each input is decoded, or encoded
\* and decoded.
NextCodec ==
    \/ DecodeValue
    \/ DecodeText
    \/ RoundTrip

SpecCodec == InitCodec /\ [][NextCodec]_vars

\* The post and comment handlers on a storage that can fail.
NextFaults ==
    \/ LoginOne
    \/ AddComment
    \/ DeletePost
    \/ StorageFailure

SpecFaults == Init /\ [][NextFaults]_vars

\* Comments as the client submits them, and the listing.
NextSubmit ==
    \/ Tick
    \/ SubmitComment
    \/ ListComments

SpecSubmit == Init /\ [][NextSubmit]_vars

\* The post mutations next to the session registry: requests made with
\* no session, a valid one or an expired one in the registry.
NextGate ==
    \/ Tick
    \/ LoginOne
    \/ PutPost
    \/ DeletePost
    \/ DeleteComment

SpecGate == Init /\ [][NextGate]_vars

\* The session registry under a token generator that never repeats, with
\* the one handler that asks for a session.
NextFresh ==
    \/ Tick
    \/ LoginFresh
    \/ Verify
    \/ Logout
    \/ DeleteComment

SpecFresh == Init /\ [][NextFresh]_vars

\* The slug generator on its own, applied to one title after another.
NextSlug == GenerateSlug

SpecSlug == Init /\ [][NextSlug]_vars

----------------------------------------------------------------------------
(* Vocabulary of the properties.                                            *)

\* The step from the current state to the next one is the handling of one
\* request by handler op: the clock stands still while a handler runs, and
\* every handler leaves its name in last.
Handles(op) == now' = now /\ last'.op = op

\* The session check of the specification: present and not past expiresAt.
SessionCheck(s, token, t) == token \in DOMAIN s /\ t <= s[token].expires

\* Every other entry of registry s is in registry s2, untouched, and s2
\* has no entry s lacks.
OtherSessionsKept(s, s2, token) ==
    /\ DOMAIN s2 \subseteq DOMAIN s
    /\ \A k \in (DOMAIN s) \ {token} : k \in DOMAIN s2 /\ s2[k] = s[k]

IsPrefix(a, b) == Len(a) <= Len(b) /\ SubSeq(b, 1, Len(a)) = a

\* Some stored comment of c is gone from c2.
SomeCommentRemoved(c, c2) ==
    \E slug \in DOMAIN c :
        \/ slug \notin DOMAIN c2
        \/ ~IsPrefix(c[slug], c2[slug]) /\ c[slug] # c2[slug]

----------------------------------------------------------------------------
(* Session registry and authorization.                                      *)

\* C1: a DELETE of a comment with no token, or with a token whose session
\* check is false, is answered 401 and leaves the comment store unchanged;
\* a step removes a stored comment only if it is a DELETE whose token passes
\* the session check at that moment.
C1_RemoveAuthorized ==
    [][ /\ (Handles("deleteComment")
              /\ ~SessionCheck(sessions, last'.token, now))
           => (last'.status = 401 /\ commentsFile' = commentsFile)
        /\ SomeCommentRemoved(commentsFile, commentsFile')
           => (Handles("deleteComment")
                 /\ SessionCheck(sessions, last'.token, now)) ]_vars

\* C1 witness: a DELETE with a once issued, no longer valid token, aimed at
\* a stored comment, was refused and the comment is still there.
C1_Witness ==
    /\ last.op = "deleteComment"
    /\ last.status = 401
    /\ last.token \in Tokens
    /\ last.found
    /\ last.postSlug \in DOMAIN commentsFile
    /\ \E i \in 1..Len(commentsFile[last.postSlug]) :
           commentsFile[last.postSlug][i].id = last.commentId

\* C2: verify(token) answers true exactly when the token is in the registry
\* and now <= expiresAt; a present, expired token is removed (nothing else
\* changes); an absent token leaves the registry as it was.
C2_VerifyContract ==
    [][ Handles("verify") =>
          LET token == last'.token
          IN /\ (last'.status = 200)
                  <=> (token \in DOMAIN sessions
                         /\ now <= sessions[token].expires)
             /\ last'.status \in {200, 401}
             /\ (token \in DOMAIN sessions /\ now > sessions[token].expires)
                  => (token \notin DOMAIN sessions'
                        /\ OtherSessionsKept(sessions, sessions', token))
             /\ token \notin DOMAIN sessions => sessions' = sessions ]_vars

\* C2 witness: a verify of a registered token was answered false and the
\* entry is gone.
C2_Witness ==
    /\ last.op = "verify"
    /\ last.status = 401
    /\ last.found
    /\ last.token \notin DOMAIN sessions

\* C3 as stated: a verify of a registered token is true strictly before its
\* expiry, false at or after it, and a false check evicts the entry.
C3_FalseAtExpiry ==
    [][ (Handles("verify") /\ last'.token \in DOMAIN sessions) =>
          /\ (last'.status = 200) <=> (now < sessions[last'.token].expires)
          /\ last'.status = 401 => last'.token \notin DOMAIN sessions' ]_vars

\* C3 amended: a verify of a registered token is true at every time up to
\* and including its expiry, false at every time after it, and the first
\* false check evicts the entry.
C3_TrueThroughExpiry ==
    [][ (Handles("verify") /\ last'.token \in DOMAIN sessions) =>
          /\ now <= sessions[last'.token].expires
               => (last'.status = 200 /\ last'.token \in DOMAIN sessions')
          /\ now > sessions[last'.token].expires
               => (last'.status = 401 /\ last'.token \notin DOMAIN sessions') ]_vars

\* C3 witness: a verify made exactly at the expiry of the session was
\* answered true.
C3_Witness ==
    /\ last.op = "verify"
    /\ last.status = 200
    /\ last.token \in DOMAIN sessions
    /\ sessions[last.token].expires = now

\* C4: a login with the configured password stores the returned token with
\* expiry now + 24 h and verify of that token is true at once; a login with
\* another password is answered 401, returns no token and leaves the
\* registry unchanged.
C4_Login ==
    [][ \A password \in Passwords, token \in Tokens :
          LoginReq(password, token) =>
            IF password = ADMIN_PASSWORD
            THEN /\ last'.status = 200
                 /\ last'.token = token
                 /\ token \in DOMAIN sessions'
                 /\ sessions'[token].expires = now + 86400000
                 /\ isValidSession(sessions', token, now').valid
            ELSE /\ last'.status = 401
                 /\ last'.token = NoToken
                 /\ sessions' = sessions ]_vars

\* C4 witness: a login has just succeeded and the token it returned is
\* registered for 24 hours from now.
C4_Witness ==
    /\ last.op = "login"
    /\ last.status = 200
    /\ last.token \in DOMAIN sessions
    /\ sessions[last.token].expires = now + 86400000

\* C5: logout(token) leaves no entry for the token, so verify of it is
\* false; every other session keeps its token and expiry; with the token
\* absent the registry is unchanged.
C5_Logout ==
    [][ Handles("logout") =>
          /\ last'.token \notin DOMAIN sessions'
          /\ ~isValidSession(sessions', last'.token, now').valid
          /\ OtherSessionsKept(sessions, sessions', last'.token)
          /\ last'.token \notin DOMAIN sessions => sessions' = sessions ]_vars

\* C5 witness: a registered token was logged out while another session
\* stays registered.
C5_Witness ==
    /\ last.op = "logout"
    /\ last.found
    /\ last.token \notin DOMAIN sessions
    /\ DOMAIN sessions # {}

\* C26: the expiry of a session is fixed at login (the login time plus
\* the lifetime), and no step of any handler changes the expires of a
\* session that is in the registry before and after the step: a step can
\* only add a session or remove one.
C26_NoSlidingExpiry ==
    [][ /\ \A k \in (DOMAIN sessions) \cap (DOMAIN sessions') :
              sessions'[k] = sessions[k]
        /\ (Handles("login") /\ last'.status = 200) =>
              /\ last'.token \in DOMAIN sessions'
              /\ sessions'[last'.token].expires = now + SessionTTL ]_vars

\* C26 witness: a session made at time 0 was verified valid at a later
\* time and still expires when it did at login.
C26_Witness ==
    /\ last.op = "verify"
    /\ last.status = 200
    /\ now > 0
    /\ last.token \in DOMAIN sessions
    /\ sessions[last.token].expires = SessionTTL

\* Token T, issued earlier, was refused by verify.
RefusedAfterIssue(T) ==
    /\ T \in issued
    /\ last.op = "verify"
    /\ last.token = T
    /\ last.status = 401

\* Token T was accepted: by verify, or by the comment DELETE handler.
Accepted(T) ==
    /\ last.token = T
    /\ \/ last.op = "verify" /\ last.status = 200
       \/ last.op = "deleteComment" /\ last.status # 401

\* C30: with a token generator that never repeats, a token that verify
\* has refused after it was logged out or had expired is never accepted
\* again, neither by verify nor by the comment DELETE handler, whatever
\* logins, verifies and logouts follow.
C30_InvalidForever ==
    \A T \in Tokens : [](RefusedAfterIssue(T) => [](~Accepted(T)))

\* C30 witness: a token that was issued and is gone is refused by verify
\* while the session of a later login is in the registry.
C30_Witness ==
    /\ RefusedAfterIssue(last.token)
    /\ last.token \notin DOMAIN sessions
    /\ DOMAIN sessions # {}

----------------------------------------------------------------------------
(* Comment log.                                                             *)

\* The partition of postSlug in store c, empty when there is none.
Partition(c, postSlug) == IF postSlug \in DOMAIN c THEN c[postSlug] ELSE <<>>

\* The comments of arr whose id differs from commentId, in their order.
WithoutId(arr, commentId) ==
    LET Keep(c) == c.id # commentId IN SelectSeq(arr, Keep)

\* C6: add(postSlug, ...) creates the partition if absent, places the new
\* comment after the comments already in the partition, persists that and
\* returns the created comment, so list(postSlug) returns the comments in
\* the order added.
C6_AddAppends ==
    [][ Handles("addComment") =>
          LET slug == last'.postSlug
          IN /\ last'.status = 200
             /\ Len(last'.body) = 1
             /\ slug \in DOMAIN commentsFile'
             /\ commentsFile'[slug]
                  = Append(Partition(commentsFile, slug), last'.body[1])
             /\ ListResult(commentsFile', slug)
                  = Partition(commentsFile, slug) \o last'.body ]_vars

\* The same statement for a postSlug that names no inherited property of
\* the parsed object; it holds.
C6_AddAppendsOwnKey ==
    [][ (Handles("addComment") /\ last'.postSlug \notin ObjectPrototypeKeys) =>
          LET slug == last'.postSlug
          IN /\ last'.status = 200
             /\ Len(last'.body) = 1
             /\ slug \in DOMAIN commentsFile'
             /\ commentsFile'[slug]
                  = Append(Partition(commentsFile, slug), last'.body[1])
             /\ ListResult(commentsFile', slug)
                  = Partition(commentsFile, slug) \o last'.body ]_vars

\* C7: an add to, or a remove from, postSlug A leaves the partition of
\* every other postSlug B as it was: neither created, dropped nor changed.
C7_PartitionIsolation ==
    [][ (Handles("addComment") \/ Handles("deleteComment")) =>
          \A B \in (PostSlugs \cup DOMAIN commentsFile \cup DOMAIN commentsFile')
                     \ {last'.postSlug} :
              /\ (B \in DOMAIN commentsFile) <=> (B \in DOMAIN commentsFile')
              /\ B \in DOMAIN commentsFile => commentsFile'[B] = commentsFile[B]
      ]_vars

\* C7 witness: a comment was added to one partition while another
\* partition holds a comment.
C7_Witness ==
    /\ last.op = "addComment"
    /\ last.status = 200
    /\ \E B \in (DOMAIN commentsFile) \ {last.postSlug} : commentsFile[B] # <<>>

\* C8: after an authorized remove(postSlug, commentId) on an existing
\* partition, list(postSlug) is the previous partition without the comments
\* whose id is commentId, in the previous order; with no such comment the
\* store is unchanged.
C8_RemoveFilters ==
    [][ (Handles("deleteComment")
           /\ SessionCheck(sessions, last'.token, now)
           /\ last'.postSlug \in DOMAIN commentsFile) =>
          LET slug == last'.postSlug
              before == commentsFile[slug]
          IN /\ ListResult(commentsFile', slug)
                  = WithoutId(before, last'.commentId)
             /\ (\A i \in 1..Len(before) : before[i].id # last'.commentId)
                  => commentsFile' = commentsFile ]_vars

\* C8 witness: an authorized remove took one of the two comments of a
\* partition and left the other.
C8_Witness ==
    /\ last.op = "deleteComment"
    /\ last.status = 200
    /\ last.originalCount = 2
    /\ last.postSlug \in DOMAIN commentsFile
    /\ Len(commentsFile[last.postSlug]) = 1

C10_DistinctIds ==
    \A slug \in DOMAIN commentsFile :
        \A i, j \in 1..Len(commentsFile[slug]) :
            i # j => commentsFile[slug][i].id # commentsFile[slug][j].id

\* C11 as stated: two concurrent mutations can interleave with the read
\* of the second between the read and the write of the first (whose change
\* the second then overwrites): whenever one mutation has read the store
\* and not written it, a second one whose handler is ready to run can do
\* its read.
C11_SecondReadBeforeFirstWrite ==
    \A r1, r2 \in Connections :
        (r1 # r2 /\ reqs[r1].phase = "read" /\ reqs[r2].phase = "ready")
          => ENABLED ReadStoreOn(r2)

\* C11 amended: a mutation that has read the store and not written it
\* holds the store as it is on file, and until it has written no other
\* mutation has read, can read or can write; no write-back is made from a
\* stale copy.
C11_ReadToWriteUninterrupted ==
    \A r1 \in Connections :
        reqs[r1].phase = "read" =>
          /\ reqs[r1].buf = commentsFile
          /\ \A r2 \in Connections \ {r1} :
                /\ reqs[r2].phase # "read"
                /\ ~ENABLED ReadStoreOn(r2)
                /\ ~ENABLED WriteStoreOn(r2)

\* C11 witness: two adds are in flight at once; the first has read the
\* store and not written, the second is ready to run.
C11_Witness ==
    /\ reqs["c1"].kind = "add"
    /\ reqs["c1"].phase = "read"
    /\ reqs["c2"].kind = "add"
    /\ reqs["c2"].phase = "ready"

\* C28: in one process a comment mutation reads the comment file, changes
\* it and writes it back as one uninterrupted step that comes after its
\* only suspension (the await of the body): while a handler holds the file
\* no other handler reads or writes it (other connections can only queue
\* work), and what the handler then writes is its own change applied to
\* the file as it is at that moment, so no stored comment of another
\* request goes lost in any interleaving.
C28_MutationsAtomic ==
    [][ \A r \in Connections :
          reqs[r].phase = "read" =>
            /\ \A r2 \in Connections \ {r} :
                  reqs[r2].phase # "read" /\ reqs'[r2].phase # "read"
            /\ \/ reqs'[r] = reqs[r] /\ commentsFile' = commentsFile
               \/ /\ reqs'[r] = NoRequest
                  /\ (reqs[r].kind = "add" /\ last'.status = 200) =>
                        /\ commentsFile' =
                              CommentsAfterAdd(commentsFile, reqs[r].postSlug,
                                               last'.body[1])
                        /\ ~SomeCommentRemoved(commentsFile, commentsFile')
                  /\ (reqs[r].kind = "add" /\ last'.status # 200) =>
                        commentsFile' = commentsFile
                  /\ (reqs[r].kind = "remove"
                        /\ PropKind(commentsFile, reqs[r].postSlug) = "array")
                        => commentsFile' =
                             CommentsAfterRemove(commentsFile,
                                                 reqs[r].postSlug,
                                                 reqs[r].commentId)
                  /\ (reqs[r].kind = "remove"
                        /\ PropKind(commentsFile, reqs[r].postSlug) # "array")
                        => commentsFile' = commentsFile ]_vars

\* C28 witness: two adds that were in flight at once have both completed,
\* and the partition holds the comment of each.
C28_Witness ==
    /\ last.op = "addComment"
    /\ last.status = 200
    /\ \E slug \in DOMAIN commentsFile :
          /\ Len(commentsFile[slug]) = 2
          /\ commentsFile[slug][1].author # commentsFile[slug][2].author

\* Comment c carries the mark of the blog owner.
Flagged(c) == "isAuthor" \in DOMAIN c /\ c.isAuthor = TRUE

\* C25: a comment submitted with isAuthor = true has isAuthor = true in
\* the response of the add and in the partition a later list of its
\* postSlug returns.
C25_IsAuthorCarried ==
    [][ (Handles("addComment") /\ last'.status = 200 /\ last'.isAuthor) =>
          /\ Flagged(last'.body[1])
          /\ \A i \in 1..Len(ListResult(commentsFile', last'.postSlug)) :
                ListResult(commentsFile', last'.postSlug)[i].id
                    = last'.commentId
                  => Flagged(ListResult(commentsFile', last'.postSlug)[i])
      ]_vars

----------------------------------------------------------------------------
(* Post repository.                                                         *)

\* What get(slug) returns on directory dir, the document being there.
GetResult(dir, slug) == PostObject(slug, dir[FileOf(slug)])

Has(post, key, value) == key \in DOMAIN post /\ post[key] = value

\* isDraft of the editor: true, or the text "true".
IsDraft(value) == value = StringValue(<<"t", "r", "u", "e">>)

\* The post carries the title, description, category, tags and content of
\* the request body fields.
MatchesText(post, fields) ==
    /\ Has(post, K_title, StringValue(fields.title))
    /\ Has(post, K_description, StringValue(fields.description))
    /\ Has(post, K_category, StringValue(fields.category))
    /\ Has(post, K_tags, ArrayValue(fields.tags))
    /\ Has(post, K_content, StringValue(fields.content))

\* The post carries the draft flag of the request body fields.
MatchesDraft(post, fields) ==
    K_draft \in DOMAIN post /\ (IsDraft(post[K_draft]) <=> fields.draft)

\* Every file of dir but file is in dir2 with the same text, and dir2 has
\* no other file dir lacks.
OtherFilesKept(dir, dir2, file) ==
    /\ (DOMAIN dir2) \ {file} = (DOMAIN dir) \ {file}
    /\ \A f \in (DOMAIN dir) \ {file} : dir2[f] = dir[f]

\* The name of a file without its extension.
Stem(file) == SubSeq(file, 1, Len(file) - Len(DotMd))

\* C12: a put without existing slug returns the slug of the title, and
\* get of that slug then returns a post whose title, description, category,
\* tags, draft and content are those that were put.
C12_CreateThenRead ==
    [][ (Handles("putPost") /\ last'.fields.slug = NoSlug) =>
          /\ last'.slug = generateSlug(last'.fields.title)
          /\ FileOf(last'.slug) \in DOMAIN blogDir'
          /\ MatchesText(GetResult(blogDir', last'.slug), last'.fields)
          /\ MatchesDraft(GetResult(blogDir', last'.slug), last'.fields) ]_vars

\* The same statement for the posts put with draft = false; it holds.
C12_CreateThenReadPublished ==
    [][ (Handles("putPost") /\ last'.fields.slug = NoSlug
           /\ ~last'.fields.draft) =>
          /\ last'.slug = generateSlug(last'.fields.title)
          /\ FileOf(last'.slug) \in DOMAIN blogDir'
          /\ MatchesText(GetResult(blogDir', last'.slug), last'.fields)
          /\ MatchesDraft(GetResult(blogDir', last'.slug), last'.fields) ]_vars

\* C13: after a put with the slug of an existing post, get of that slug
\* returns the pubDate the post had before.
C13_PubDateKept ==
    [][ (Handles("putPost") /\ last'.fields.slug # NoSlug
           /\ FileOf(last'.fields.slug) \in DOMAIN blogDir
           /\ K_pubDate \in DOMAIN GetResult(blogDir, last'.fields.slug)) =>
          Has(GetResult(blogDir', last'.fields.slug), K_pubDate,
              GetResult(blogDir, last'.fields.slug)[K_pubDate]) ]_vars

\* C14: a put with existing slug S writes document S and no other, returns
\* S whatever the title, and leaves in S the newly supplied body and
\* frontmatter fields in place of all it held.
C14_FullOverwrite ==
    [][ (Handles("putPost") /\ last'.fields.slug # NoSlug) =>
          LET S == last'.fields.slug
          IN /\ last'.status = 200
             /\ last'.slug = S
             /\ FileOf(S) \in DOMAIN blogDir'
             /\ OtherFilesKept(blogDir, blogDir', FileOf(S))
             /\ MatchesText(GetResult(blogDir', S), last'.fields)
             /\ MatchesDraft(GetResult(blogDir', S), last'.fields) ]_vars

\* The same statement without the draft flag, and with the document being
\* the encoding of the request alone; it holds.
C14_OverwriteButDraft ==
    [][ (Handles("putPost") /\ last'.fields.slug # NoSlug) =>
          LET S == last'.fields.slug
          IN /\ last'.status = 200
             /\ last'.slug = S
             /\ FileOf(S) \in DOMAIN blogDir'
             /\ OtherFilesKept(blogDir, blogDir', FileOf(S))
             /\ MatchesText(GetResult(blogDir', S), last'.fields)
             /\ blogDir'[FileOf(S)] = Markdown(last'.fields, now) ]_vars

\* C15: a put without existing slug whose title gives the slug of a
\* document that is there succeeds, returns that slug and puts its own
\* document in place of the old one: the directory has as many documents
\* as before, the others untouched, and get of the slug returns the content
\* of this later write.
C15_CreateOverwrites ==
    [][ (Handles("putPost") /\ last'.fields.slug = NoSlug
           /\ FileOf(generateSlug(last'.fields.title)) \in DOMAIN blogDir) =>
          LET s == generateSlug(last'.fields.title)
          IN /\ last'.status = 200
             /\ last'.slug = s
             /\ DOMAIN blogDir' = DOMAIN blogDir
             /\ OtherFilesKept(blogDir, blogDir', FileOf(s))
             /\ blogDir'[FileOf(s)] = Markdown(last'.fields, now)
             /\ Has(GetResult(blogDir', s), K_content,
                    StringValue(last'.fields.content)) ]_vars

\* C15 witness: a creation has just replaced the document another
\* creation had written under the same slug.
C15_Witness ==
    /\ last.op = "putPost"
    /\ last.fields = HelloWorldDraft
    /\ last.existed
    /\ last.slug = HelloWorldSlug
    /\ Cardinality(DOMAIN blogDir) = 2
    /\ GetResult(blogDir, HelloWorldSlug)[K_content]
         = StringValue(HelloWorldDraft.content)

\* C16: delete(slug) answers 200 and removes the document when it is
\* there, and answers 404 and changes nothing when it is not; get(slug)
\* answers 404 exactly when the document is not there; and only a put of
\* that slug brings a document back.
C16_DeleteAndNotFound ==
    [][ /\ Handles("deletePost") =>
              IF FileOf(last'.slug) \in DOMAIN blogDir
              THEN /\ last'.status = 200
                   /\ FileOf(last'.slug) \notin DOMAIN blogDir'
                   /\ OtherFilesKept(blogDir, blogDir', FileOf(last'.slug))
              ELSE /\ last'.status = 404
                   /\ blogDir' = blogDir
        /\ Handles("getPost") =>
              /\ last'.status \in {200, 404}
              /\ (last'.status = 404) <=> (FileOf(last'.slug) \notin DOMAIN blogDir)
        /\ \A file \in (DOMAIN blogDir') \ (DOMAIN blogDir) :
              Handles("putPost") /\ file = FileOf(last'.slug) ]_vars

\* C16 witness: a delete of a document that was there has succeeded and
\* the document is gone, another one being left.
C16_Witness ==
    /\ last.op = "deletePost"
    /\ last.status = 200
    /\ last.existed
    /\ FileOf(last.slug) \notin DOMAIN blogDir
    /\ DOMAIN blogDir # {}

\* C18: list() holds exactly one post with slug s for every document s.md
\* of the directory, and get(s) returns a post with slug s.
C18_SlugIsFileName ==
    [][ /\ Handles("listPosts") =>
              \A file \in {f \in DOMAIN blogDir : EndsWith(f, DotMd)} :
                  Cardinality({i \in DOMAIN last'.posts :
                                  Has(last'.posts[i], K_slug,
                                      StringValue(Stem(file)))}) = 1
        /\ (Handles("getPost") /\ last'.status = 200) =>
              Has(last'.post, K_slug, StringValue(last'.slug)) ]_vars

\* C19: the sequence list() returns is the same for every order in which
\* the directory enumeration yields the files.
C19_ListOrderIndependent ==
    [][ Handles("listPosts") =>
          \A files \in ReaddirOrders(blogDir) :
              PostList(DecodedFiles(blogDir), files) = last'.posts ]_vars

\* C17: a put or a delete of a post leaves the comment store as it was, so
\* every partition, that of a deleted post included, lists as before; and
\* a step that adds, changes or removes a post document is the handling of
\* a post put or a post delete, never of a comment operation.
C17_NoCascade ==
    [][ /\ (Handles("putPost") \/ Handles("deletePost")) =>
              /\ commentsFile' = commentsFile
              /\ \A p \in PostSlugs :
                     ListResult(commentsFile', p) = ListResult(commentsFile, p)
        /\ (Handles("listComments") \/ Handles("addComment")
               \/ Handles("deleteComment")) => blogDir' = blogDir
        /\ blogDir' # blogDir =>
              (Handles("putPost") \/ Handles("deletePost")) ]_vars

\* C17 witness: a post was deleted and its partition still holds a
\* comment.
C17_Witness ==
    /\ last.op = "deletePost"
    /\ last.status = 200
    /\ FileOf(last.slug) \notin DOMAIN blogDir
    /\ \E p \in DOMAIN commentsFile :
           SlugText[p] = last.slug /\ commentsFile[p] # <<>>

\* C29: the post put and the post delete neither read nor change the
\* session registry: their response and the directory they leave are
\* those the directory and the request alone determine, the same with no
\* session, an expired session or a valid session in the registry, and
\* they never answer 401; the comment DELETE is the operation that is
\* refused (401) exactly when its token names no valid session.
C29_PostsNotGated ==
    [][ /\ Handles("putPost") =>
              /\ sessions' = sessions
              /\ last'.status = 200
              /\ blogDir' = BlogDirAfterPut(blogDir, FileOf(last'.slug),
                                            Markdown(last'.fields, now))
        /\ Handles("deletePost") =>
              /\ sessions' = sessions
              /\ last'.status =
                    IF FileOf(last'.slug) \in DOMAIN blogDir THEN 200 ELSE 404
              /\ blogDir' =
                    IF FileOf(last'.slug) \in DOMAIN blogDir
                    THEN BlogDirAfterDelete(blogDir, FileOf(last'.slug))
                    ELSE blogDir
        /\ Handles("deleteComment") =>
              (last'.status = 401
                 <=> ~SessionCheck(sessions, last'.token, now)) ]_vars

\* C29 witness: a post was deleted while the only session of the registry
\* had expired.
C29_Witness ==
    /\ last.op = "deletePost"
    /\ last.status = 200
    /\ DOMAIN sessions # {}
    /\ \A k \in DOMAIN sessions : now > sessions[k].expires

----------------------------------------------------------------------------
(* Frontmatter codec.                                                       *)

\* C21: decoding the document encoded from fields F and body B gives the
\* body B and the title, description, category, tags and draft of F, with
\* the date of the encoding as pubDate.
C21_RoundTrip ==
    [][ Handles("roundTrip") =>
          /\ MatchesText(last'.post, last'.fields)
          /\ MatchesDraft(last'.post, last'.fields)
          /\ Has(last'.post, K_pubDate, StringValue(toISODate(now))) ]_vars

\* The lines begin with a marker line and have another marker line later.
HasMarkerPair(lines) ==
    /\ lines[1] = Marker
    /\ \E j \in 2..Len(lines) : lines[j] = Marker

\* C22: a text that does not begin with an opening marker line followed
\* later by a closing marker line decodes to no field at all and to the
\* whole text as body.
C22_NoFrontmatter ==
    (last.op = "decodeText" /\ ~HasMarkerPair(Split(last.text, "\n"))) =>
      /\ DOMAIN last.post = {K_slug, K_content}
      /\ last.post[K_content] = StringValue(last.text)

\* The value without one matching pair of quotes around it, if it has one.
WithoutMatchingPair(s) ==
    IF Len(s) >= 2 /\ s[1] \in QuoteChars /\ s[Len(s)] = s[1]
    THEN SubSeq(s, 2, Len(s) - 1)
    ELSE s

\* The trimmed right-hand side starts with "[".
StartsWithBracket(raw) == raw # <<>> /\ raw[1] = "["

\* C23: a value that does not start with "[" decodes to the trimmed value
\* without its matching pair of quotes if it has one, and to the trimmed
\* value itself otherwise (quoted at one end only, or with two different
\* quotes).
C23_MatchingPairStripped ==
    (last.op = "decodeValue" /\ ~StartsWithBracket(trim(last.value))) =>
      Has(last.post, ValueKey,
          StringValue(WithoutMatchingPair(trim(last.value))))

\* C24: a value that starts with "[" and is no array literal once its
\* single quotes are made double decodes to the trimmed value as it stands
\* in the document.
C24_RawStringKept ==
    (/\ last.op = "decodeValue"
     /\ StartsWithBracket(trim(last.value))
     /\ ~JSONParseArray(SingleToDouble(trim(last.value))).ok) =>
      Has(last.post, ValueKey, StringValue(trim(last.value)))

----------------------------------------------------------------------------
(* Storage failures.                                                        *)

----------------------------------------------------------------------------
(* Slug generator.                                                          *)

\* The maximal runs of slug characters of s, in order; cur is the run
\* being read.
RECURSIVE Words(_, _)
Words(s, cur) ==
    LET done == IF cur = <<>> THEN <<>> ELSE <<cur>>
    IN IF s = <<>> THEN done
       ELSE IF IsSlugChar(Head(s)) THEN Words(Tail(s), Append(cur, Head(s)))
       ELSE done \o Words(Tail(s), <<>>)

\* The lower-cased title with every maximal run of other characters
\* replaced by one hyphen and without a hyphen at either end: its words,
\* joined by hyphens.
Hyphenated(title) == Join(Words(toLowerCase(title), <<>>), <<"-">>)

\* C20: the slug of a title is the lower-cased title with every maximal run
\* of characters other than ASCII letters, ASCII digits and CJK ideographs
\* replaced by one hyphen and a leading and a trailing hyphen stripped, or
\* "untitled" if that is empty; it is never empty, neither starts nor ends
\* with a hyphen and has no two adjacent hyphens; the slug of "" is
\* "untitled" and the slug of "Hello, World!" is "hello-world".
C20_Slugify ==
    /\ slugOut = IF Hyphenated(titleArg) = <<>> THEN Untitled
                 ELSE Hyphenated(titleArg)
    /\ Len(slugOut) > 0
    /\ slugOut[1] # "-"
    /\ slugOut[Len(slugOut)] # "-"
    /\ \A i \in 1..(Len(slugOut) - 1) :
           ~(slugOut[i] = "-" /\ slugOut[i + 1] = "-")
    /\ titleArg = <<>> => slugOut = Untitled
    /\ titleArg = HelloWorldTitle
         => slugOut = <<"h", "e", "l", "l", "o", "-",
                        "w", "o", "r", "l", "d">>

\* C20 witness: a title of spaces and hyphens only was given the slug
\* "untitled".
C20_Witness ==
    /\ titleArg = <<" ", "-", " ">>
    /\ slugOut = Untitled

====
